---- MODULE Spec2Model ----
(***************************************************************************)
(* Model of server.js: the POST /api/analyze handler, fetchWithTimeout and *)
(* forEachNdjson.  One request is followed from its arrival to its         *)
(* response.  The upstream (lichess.org) is the environment: it answers    *)
(* the two fetches, delivers the NDJSON body chunk by chunk, fails, or     *)
(* stays silent.                                                           *)
(*                                                                         *)
(* Absent JavaScript values (undefined / null) are the empty sequence <<>> *)
(* and a present value v is <<v>>; an absent or empty string is "".        *)
(***************************************************************************)
EXTENDS Integers, Sequences, FiniteSets, TLC

\* ---------------------------------------------------------------- bounds
\* chunks a stream delivers under Spec (whole lines)
MaxReads == 2
\* bytes a stream delivers under SpecNd (arbitrary bytes, arbitrary cuts)
MaxLen == 4

\* lines of the same game in one chunk under SpecAgg
MaxRepeat == 4

\* ------------------------------------------------------- bytes and chars
\* A byte of the body is <<"nl">> (0x0A), <<"sp">> (a whitespace byte),
\* <<"open">> (the "{" that opens a record), <<"body", g>> (the rest of the
\* record's JSON text, standing for the game g it encodes), <<"lead">> (the
\* first byte of a two-byte UTF-8 character) or <<"cont">> (a continuation
\* byte).  Decoding adds the characters <<"mb">> (a two-byte character) and
\* <<"fffd">> (U+FFFD, what the decoder emits for a malformed sequence).
NL == <<"nl">>
SP == <<"sp">>
OPEN == <<"open">>
LEAD == <<"lead">>
CONT == <<"cont">>
MB == <<"mb">>
FFFD == <<"fffd">>
BODY(g) == <<"body", g>>

\* ------------------------------------------------------------ game records
None == <<>>
Some(v) == <<v>>

\* a.inaccuracy etc.: a number <<"num", n>>, a missing field <<"undef">>, a
\* string that writes the number n <<"numstr", n>>, or a string that writes
\* no number <<"str">>
Num(n) == <<"num", n>>
Undef == <<"undef">>
NumStr(n) == <<"numstr", n>>
Str == <<"str">>

\* accuracies are kept in tenths of a percent (873 is 87.3)
AnalysisA == [inaccuracy |-> Num(2), mistake |-> Num(1), blunder |-> Num(0), accuracy |-> Num(873)]

Side(n, t, a) == [name |-> n, team |-> t, analysis |-> a]
Game(w, b, m, s) == [white |-> w, black |-> b, moves |-> m, status |-> s]

AnalysisValues == {None, Some(AnalysisA)}
\* g.moves is absent, or a string of n tokens joined by single spaces (0: "")
\* the move lists and statuses met with every analysis pattern
MovesAndStatus ==
    {<<None, "mate">>, <<Some(9), "mate">>, <<Some(10), "mate">>,
     <<Some(10), "aborted">>, <<Some(10), "noStart">>}
\* and those met only without analysis
MovesAndStatusBare == {<<Some(0), "mate">>, <<Some(3), "aborted">>}
\* the names of white and black besides "a" against "b" ("": no user name)
NamePairs == {<<"a", "a">>, <<"", "">>, <<"", "a">>}

\* the games the upstream serves under Spec
ClassGames ==
    { Game(Side("a", "", aw), Side("b", "", ab), ms[1], ms[2]) :
        aw \in AnalysisValues, ab \in AnalysisValues, ms \in MovesAndStatus }
    \cup { Game(Side("a", "", None), Side("b", "", None), ms[1], ms[2]) :
             ms \in MovesAndStatusBare }
PlayerGames ==
    { Game(Side(np[1], "", aw), Side(np[2], "", ab), Some(10), "mate") :
        np \in NamePairs, aw \in AnalysisValues, ab \in AnalysisValues }
GameRecords == PlayerGames \cup ClassGames

\* a second analysis: level with AnalysisA on inaccuracies, more accurate
AnalysisB == [inaccuracy |-> Num(2), mistake |-> Num(0), blunder |-> Num(1), accuracy |-> Num(910)]

\* the games the upstream serves under SpecAgg, each of them several times
PoolGames ==
    {Game(Side("a", "", Some(AnalysisA)), Side("b", "", Some(AnalysisB)), Some(10), "mate"),
     Game(Side("a", "", Some(AnalysisA)), Side("b", "", None), Some(10), "mate"),
     Game(Side("c", "", Some(AnalysisB)), Side("d", "", Some(AnalysisA)), Some(10), "mate"),
     Game(Side("a", "", None), Side("a", "", None), Some(10), "mate")}

\* the games the upstream serves under SpecSides: sides that carry a team
\* or none, and analyses whose fields are numbers, missing or strings
Teams == {"", "t1", "t2"}
TeamGames ==
    { Game(Side("a", tw, None), Side(nb, tb, None), Some(10), "mate") :
        tw \in Teams, nb \in {"a", "b"}, tb \in Teams }
FieldValues == {Num(3), Undef, Str, NumStr(4), Num(0)}
FieldAnalyses ==
    { [inaccuracy |-> v, mistake |-> Num(1), blunder |-> v, accuracy |-> w] :
        v \in FieldValues, w \in {Num(873), Undef, Str} }
FieldGames ==
    { Game(Side("a", "", Some(a)), Side("b", "", None), Some(10), "mate") :
        a \in FieldAnalyses }
SideGames == TeamGames \cup FieldGames

\* the games that appear in the byte streams of SpecNd
NdGame == Game(Side("a", "", Some(AnalysisA)), Side("b", "", None), Some(10), "mate")
NdBytes == {NL, SP, OPEN, BODY(NdGame), LEAD, CONT}

\* ---------------------------------------------------------- TextDecoder
\* decoder.decode(value, {stream: true}): pend is TRUE when the decoder holds
\* the lead byte of a character whose continuation has not arrived yet.
RECURSIVE DecodeFrom(_, _, _)
DecodeFrom(pend, bytes, out) ==
    IF bytes = <<>> THEN [chars |-> out, pending |-> pend]
    ELSE LET b == Head(bytes) IN
         IF pend
         THEN IF b = CONT
              THEN DecodeFrom(FALSE, Tail(bytes), Append(out, MB))
              ELSE DecodeFrom(FALSE, bytes, Append(out, FFFD))
         ELSE IF b = LEAD THEN DecodeFrom(TRUE, Tail(bytes), out)
         ELSE IF b = CONT THEN DecodeFrom(FALSE, Tail(bytes), Append(out, FFFD))
         ELSE DecodeFrom(FALSE, Tail(bytes), Append(out, b))

\* a decoder that forgets its pending byte between chunks (each chunk decoded
\* on its own, as without {stream: true})
DecodeNoStream(pend, bytes) ==
    LET r == DecodeFrom(FALSE, bytes, <<>>) IN
    [chars |-> IF r.pending THEN Append(r.chars, FFFD) ELSE r.chars, pending |-> FALSE]

Decode(pend, bytes) == DecodeFrom(pend, bytes, <<>>)

\* decoder.decode() at the end of the stream
DecodeFlush(pend) == IF pend THEN <<FFFD>> ELSE <<>>

\* ------------------------------------------------------- string helpers
\* buffer.indexOf("\n"), 1-based; 0 for -1
IndexOfNL(s) ==
    IF \E i \in 1..Len(s) : s[i] = NL
    THEN CHOOSE i \in 1..Len(s) : s[i] = NL /\ \A j \in 1..(i - 1) : s[j] # NL
    ELSE 0

IsSpace(c) == c = SP \/ c = NL

\* String.prototype.trim
RECURSIVE TrimLeft(_)
TrimLeft(s) == IF s # <<>> /\ IsSpace(Head(s)) THEN TrimLeft(Tail(s)) ELSE s
RECURSIVE TrimRight(_)
TrimRight(s) ==
    IF s # <<>> /\ IsSpace(s[Len(s)]) THEN TrimRight(SubSeq(s, 1, Len(s) - 1)) ELSE s
Trim(s) == TrimRight(TrimLeft(s))

\* JSON.parse(line): the text is a record when, whitespace between its
\* tokens set aside, it is "{" followed by the rest of one record
Tokens(line) == SelectSeq(line, LAMBDA c : ~IsSpace(c))
Parseable(line) ==
    LET t == Tokens(line) IN Len(t) = 2 /\ t[1] = OPEN /\ t[2][1] = "body"
JSONParse(line) == Tokens(line)[2][2]

\* --------------------------------------------- onItem: game classification
Truthy(m) == m # None /\ m[1] > 0
\* g.moves.split(" ").length for a string of n tokens ("" splits into [""])
SplitLength(n) == IF n = 0 THEN 1 ELSE n

HasAnalysis(side) == side.analysis # None
\* a move count that takes a game without a move list for a long one
MoveCountAbsentLong(g) == IF Truthy(g.moves) THEN SplitLength(g.moves[1]) ELSE 10

MoveCount(g) == IF Truthy(g.moves) THEN SplitLength(g.moves[1]) ELSE 0
\* a test on the length of the game alone
IsShortGameByLength(g) == MoveCount(g) < 10

IsShortGame(g) == MoveCount(g) < 10 \/ g.status = "aborted" \/ g.status = "noStart"

\* the classification with the test on the two analyses left out
ClassifyUnguarded(c, g) ==
    LET hw == HasAnalysis(g.white)
        hb == HasAnalysis(g.black)
    IN [c EXCEPT
          !.gameCount = @ + 1,
          !.lichessCount = IF hw \/ hb THEN @ + 1 ELSE @,
          !.fullyAnalyzedCount = IF hw /\ hb THEN @ + 1 ELSE @,
          !.shortCount = IF IsShortGame(g) THEN @ + 1 ELSE @,
          !.unanalyzedCount = IF ~IsShortGame(g) /\ Truthy(g.moves) THEN @ + 1 ELSE @]

\* the classification that counts a game as unanalyzed only when exactly one
\* of its sides lacks the analysis
ClassifyExactlyOne(c, g) ==
    LET hw == HasAnalysis(g.white)
        hb == HasAnalysis(g.black)
    IN [c EXCEPT
          !.gameCount = @ + 1,
          !.lichessCount = IF hw \/ hb THEN @ + 1 ELSE @,
          !.fullyAnalyzedCount = IF hw /\ hb THEN @ + 1 ELSE @,
          !.shortCount = IF (~hw \/ ~hb) /\ IsShortGame(g) THEN @ + 1 ELSE @,
          !.unanalyzedCount =
              IF (hw # hb) /\ ~IsShortGame(g) /\ Truthy(g.moves) THEN @ + 1 ELSE @]

\* server.js 76-93
ClassifyGame(c, g) ==
    LET hw == HasAnalysis(g.white)
        hb == HasAnalysis(g.black)
    IN [c EXCEPT
          !.gameCount = @ + 1,
          !.lichessCount = IF hw \/ hb THEN @ + 1 ELSE @,
          !.fullyAnalyzedCount = IF hw /\ hb THEN @ + 1 ELSE @,
          !.shortCount = IF (~hw \/ ~hb) /\ IsShortGame(g) THEN @ + 1 ELSE @,
          !.unanalyzedCount =
              IF (~hw \/ ~hb) /\ ~IsShortGame(g) /\ Truthy(g.moves) THEN @ + 1 ELSE @]

\* ------------------------------------------- onItem: per-side aggregation
\* Number(x): the number itself, the number a string writes, NaN for any
\* other string and for undefined
NaN == <<"nan">>
ToNumber(v) ==
    CASE v[1] = "num" -> v
      [] v[1] = "numstr" -> Num(v[2])
      [] OTHER -> NaN

\* Number(x) || 0: NaN and 0 are falsy
NumberOrZero(v) ==
    LET n == ToNumber(v) IN
    IF n = NaN \/ n = Num(0) THEN 0 ELSE n[2]

\* g.players?.[c]?.user?.name || "Anonymous"
NameOf(side) == IF side.name # "" THEN side.name ELSE "Anonymous"

\* ps is the Map in insertion order: a sequence of entries, one per key
HasPlayer(m, name) == \E i \in 1..Len(m) : m[i].username = name
IndexOfPlayer(m, name) == CHOOSE i \in 1..Len(m) : m[i].username = name

NewPlayer(name, side) ==
    [username |-> name, inaccuracies |-> 0, mistakes |-> 0, blunders |-> 0,
     gamesPlayed |-> 0, analyzedGames |-> 0, team |-> side.team, accuracies |-> <<>>]

\* an analysis part that skips a side whose three counts are not all numbers
AddAnalysisStrict(s, side) ==
    IF side.analysis # None
          /\ \A f \in {"inaccuracy", "mistake", "blunder"} : side.analysis[1][f][1] = "num"
    THEN LET a == side.analysis[1] IN
         [s EXCEPT
            !.inaccuracies = @ + a.inaccuracy[2],
            !.mistakes = @ + a.mistake[2],
            !.blunders = @ + a.blunder[2],
            !.accuracies = IF a.accuracy # Undef
                           THEN Append(@, NumberOrZero(a.accuracy)) ELSE @,
            !.analyzedGames = @ + 1]
    ELSE s

\* the analysis part of the loop body, server.js 103-110
AddAnalysis(s, side) ==
    IF side.analysis # None
    THEN LET a == side.analysis[1] IN
         [s EXCEPT
            !.inaccuracies = @ + NumberOrZero(a.inaccuracy),
            !.mistakes = @ + NumberOrZero(a.mistake),
            !.blunders = @ + NumberOrZero(a.blunder),
            !.accuracies = IF a.accuracy # Undef
                           THEN Append(@, NumberOrZero(a.accuracy)) ELSE @,
            !.analyzedGames = @ + 1]
    ELSE s

\* an update that counts the game only for an entry it has just created
UpdatePlayerCountOnCreate(s, side) ==
    AddAnalysis(
        [s EXCEPT
           !.gamesPlayed = IF @ = 0 THEN 1 ELSE @,
           !.team = IF @ = "" /\ side.team # "" THEN side.team ELSE @],
        side)

\* an update in which the team of the latest occurrence wins
UpdatePlayerLastTeam(s, side) ==
    AddAnalysis(
        [s EXCEPT
           !.gamesPlayed = @ + 1,
           !.team = IF side.team # "" THEN side.team ELSE @],
        side)

\* server.js 99-110 on the entry s of the side's player
UpdatePlayer(s, side) ==
    AddAnalysis(
        [s EXCEPT
           !.gamesPlayed = @ + 1,
           !.team = IF @ = "" /\ side.team # "" THEN side.team ELSE @],
        side)

\* one iteration of the loop over ["white", "black"], server.js 96-110
AggregateSide(m, side) ==
    LET name == NameOf(side)
        m1 == IF HasPlayer(m, name) THEN m ELSE Append(m, NewPlayer(name, side))
        i == IndexOfPlayer(m1, name)
    IN [m1 EXCEPT ![i] = UpdatePlayer(@, side)]

\* a loop that visits each distinct player of the game once
AggregateGameOncePerPlayer(m, g) ==
    IF NameOf(g.white) = NameOf(g.black)
    THEN AggregateSide(m, g.white)
    ELSE AggregateSide(AggregateSide(m, g.white), g.black)

\* server.js 95-111
AggregateGame(m, g) == AggregateSide(AggregateSide(m, g.white), g.black)

\* the callback given to forEachNdjson, server.js 75-112
OnItem(agg, g) ==
    [ClassifyGame(agg, g) EXCEPT !.ps = AggregateGame(agg.ps, g)]

EmptyAgg ==
    [gameCount |-> 0, unanalyzedCount |-> 0, lichessCount |-> 0,
     fullyAnalyzedCount |-> 0, shortCount |-> 0, ps |-> <<>>]

\* ------------------------------------------------------------ finalizer
RECURSIVE Sum(_)
Sum(q) == IF q = <<>> THEN 0 ELSE Head(q) + Sum(Tail(q))

\* Math.round(mean * 10) / 10, in tenths: the nearest tenth, halves rounded up
MeanAccuracy(samples) ==
    IF Len(samples) > 0
    THEN (2 * Sum(samples) + Len(samples)) \div (2 * Len(samples))
    ELSE 0

\* server.js 117-119
Metrics(m) ==
    [i \in 1..Len(m) |->
        [username |-> m[i].username, inaccuracies |-> m[i].inaccuracies,
         mistakes |-> m[i].mistakes, blunders |-> m[i].blunders,
         gamesPlayed |-> m[i].gamesPlayed, analyzedGames |-> m[i].analyzedGames,
         team |-> m[i].team, accuracies |-> m[i].accuracies,
         accuracy |-> MeanAccuracy(m[i].accuracies)]]

\* server.js 122-124; a / g >= 0.5 is 2a >= g for g > 0
WithAnalysis(metrics) == SelectSeq(metrics, LAMBDA p : p.analyzedGames > 0)
Eligible(metrics) ==
    SelectSeq(metrics, LAMBDA p : p.analyzedGames >= 4 /\ 2 * p.analyzedGames >= p.gamesPlayed)
\* a pool that falls back on the analysed players only when nobody is eligible
PoolWhenAnyEligible(metrics) ==
    IF Len(Eligible(metrics)) >= 1 THEN Eligible(metrics) ELSE WithAnalysis(metrics)

Pool(metrics) ==
    IF Len(Eligible(metrics)) >= 2 THEN Eligible(metrics) ELSE WithAnalysis(metrics)

\* [...arr].sort(cmp) for a comparator that orders by the pair key[i]:
\* Array.prototype.sort is stable, so equal keys keep the order of arr
KeyLess(x, y) == x[1] < y[1] \/ (x[1] = y[1] /\ x[2] < y[2])
StableSort(arr, key) ==
    LET n == Len(arr)
        Rank(i) ==
            1 + Cardinality({j \in 1..n : KeyLess(key[j], key[i]) \/ (key[j] = key[i] /\ j < i)})
    IN [r \in 1..n |-> arr[CHOOSE i \in 1..n : Rank(i) = r]]

\* sd = (arr, k) => [...arr].sort((a, b) => b[k] - a[k])
sd(arr, k) == StableSort(arr, [i \in 1..Len(arr) |-> <<0 - arr[i][k], 0>>])
\* an ascending sort that ignores the second key
saFirstKeyOnly(arr, k, k2) == StableSort(arr, [i \in 1..Len(arr) |-> <<arr[i][k], 0>>])

\* sa = (arr, k, k2) => sort by a[k] - b[k], then b[k2] - a[k2] when k2 is given
sa(arr, k, k2) ==
    StableSort(arr, [i \in 1..Len(arr) |->
        <<arr[i][k], IF k2 # "" THEN 0 - arr[i][k2] ELSE 0>>])

Superlative(p, k) == [player |-> p.username, value |-> p[k]]

\* the body given to res.json, server.js 130-146 (the three fields copied
\* from the tournament description are left out)
Payload(agg) ==
    LET metrics == Metrics(agg.ps)
        pool == Pool(metrics)
    IN [gameCount |-> agg.gameCount,
        analyzedByLichess |-> agg.lichessCount,
        totalAnalyzed |-> agg.fullyAnalyzedCount,
        skippedShortGames |-> agg.shortCount,
        unanalyzedGames |-> agg.unanalyzedCount,
        eligiblePlayers |-> Len(pool),
        totalPlayersWithAnalysis |-> Len(WithAnalysis(metrics)),
        mostInaccuracies |-> Superlative(sd(pool, "inaccuracies")[1], "inaccuracies"),
        leastInaccuracies |-> Superlative(sa(pool, "inaccuracies", "accuracy")[1], "inaccuracies"),
        mostMistakes |-> Superlative(sd(pool, "mistakes")[1], "mistakes"),
        leastMistakes |-> Superlative(sa(pool, "mistakes", "accuracy")[1], "mistakes"),
        mostBlunders |-> Superlative(sd(pool, "blunders")[1], "blunders"),
        leastBlunders |-> Superlative(sa(pool, "blunders", "accuracy")[1], "blunders"),
        highestAccuracy |-> Superlative(sd(pool, "accuracy")[1], "accuracy"),
        lowestAccuracy |-> Superlative(sa(pool, "accuracy", "")[1], "accuracy"),
        playerMetrics |-> metrics]

\* a finalizer that keeps each player's counts per analysed game in the map
FinalizerInPlace(m) ==
    LET perGame ==
            [i \in 1..Len(m) |->
                IF m[i].analyzedGames = 0 THEN m[i]
                ELSE [m[i] EXCEPT !.inaccuracies = @ \div m[i].analyzedGames,
                                  !.mistakes = @ \div m[i].analyzedGames,
                                  !.blunders = @ \div m[i].analyzedGames]]
        body == Payload([EmptyAgg EXCEPT !.ps = perGame])
    IN [ps |-> perGame,
        superlatives |->
            IF Len(Pool(Metrics(perGame))) = 0 THEN None
            ELSE Some(<<body.mostInaccuracies, body.leastInaccuracies,
                        body.mostMistakes, body.leastMistakes,
                        body.mostBlunders, body.leastBlunders,
                        body.highestAccuracy, body.lowestAccuracy>>)]

\* server.js 117-144 as one run over the player map m: the map it leaves and
\* the eight superlatives it finds (None when the pool is empty).  metrics
\* are built from copies ({...p}), filter returns new arrays and sd and sa
\* sort copies ([...arr]), so nothing is written to the map or its entries.
Finalizer(m) ==
    LET body == Payload([EmptyAgg EXCEPT !.ps = m])
    IN [ps |-> m,
        superlatives |->
            IF Len(Pool(Metrics(m))) = 0 THEN None
            ELSE Some(<<body.mostInaccuracies, body.leastInaccuracies,
                        body.mostMistakes, body.leastMistakes,
                        body.mostBlunders, body.leastBlunders,
                        body.highestAccuracy, body.lowestAccuracy>>)]

\* ------------------------------------------------------------- responses
NoResponse == [status |-> 0, error |-> "", payload |-> None]
Failure(st, msg) == [status |-> st, error |-> msg, payload |-> None]
Success(body) == [status |-> 200, error |-> "", payload |-> Some(body)]

\* a catch that answers every error alike
CatchAll(e) == Failure(500, e.message)

\* catch (e), server.js 147-151
Catch(e) ==
    IF e.name = "AbortError"
    THEN Failure(504, "Lichess ne repond pas a temps.")
    ELSE Failure(500, e.message)

\* the steps after the stream without the test on the pool: sd(pool, k)[0]
\* is undefined for an empty pool and reading its username throws
FinishNoPoolCheck(agg) ==
    IF agg.gameCount = 0 THEN Failure(404, "Aucune partie trouvee.")
    ELSE IF Len(Pool(Metrics(agg.ps))) = 0
         THEN Catch([name |-> "TypeError", message |-> "Cannot read properties of undefined"])
    ELSE Success(Payload(agg))

\* server.js 114-146: what the handler answers once forEachNdjson has returned
Finish(agg) ==
    IF agg.gameCount = 0 THEN Failure(404, "Aucune partie trouvee.")
    ELSE IF Len(Pool(Metrics(agg.ps))) = 0 THEN Failure(400, "Aucune partie analysee.")
    ELSE Success(Payload(agg))

\* -------------------------------------------------------- forEachNdjson
\* an inner loop that passes over a line JSON.parse rejects and goes on
RECURSIVE DrainLinesSkipBad(_)
DrainLinesSkipBad(r) ==
    LET newlineIndex == IndexOfNL(r.buffer) IN
    IF newlineIndex = 0 THEN r
    ELSE LET line == Trim(SubSeq(r.buffer, 1, newlineIndex - 1))
             rest == SubSeq(r.buffer, newlineIndex + 1, Len(r.buffer))
         IN IF line = <<>> \/ ~Parseable(line)
            THEN DrainLinesSkipBad([r EXCEPT !.buffer = rest])
            ELSE DrainLinesSkipBad([r EXCEPT !.buffer = rest,
                                             !.lines = Append(@, line),
                                             !.agg = OnItem(@, JSONParse(line))])

\* an inner loop that is an if: at most one line is taken from the buffer
\* for each chunk
DrainOneLine(r) ==
    LET newlineIndex == IndexOfNL(r.buffer) IN
    IF newlineIndex = 0 THEN r
    ELSE LET line == Trim(SubSeq(r.buffer, 1, newlineIndex - 1))
             rest == SubSeq(r.buffer, newlineIndex + 1, Len(r.buffer))
         IN IF line = <<>> THEN [r EXCEPT !.buffer = rest]
            ELSE IF ~Parseable(line)
                 THEN [r EXCEPT !.buffer = rest, !.lines = Append(@, line), !.thrown = TRUE]
            ELSE [r EXCEPT !.buffer = rest,
                           !.lines = Append(@, line),
                           !.agg = OnItem(@, JSONParse(line))]

\* The inner loop, server.js 33-39, on r = [buffer, agg, lines, thrown]:
\* lines records each text given to JSON.parse, thrown is TRUE once
\* JSON.parse has thrown (the loop is left at that point).
RECURSIVE DrainLines(_)
DrainLines(r) ==
    LET newlineIndex == IndexOfNL(r.buffer) IN
    IF newlineIndex = 0 THEN r
    ELSE LET line == Trim(SubSeq(r.buffer, 1, newlineIndex - 1))
             rest == SubSeq(r.buffer, newlineIndex + 1, Len(r.buffer))
         IN IF line = <<>> THEN DrainLines([r EXCEPT !.buffer = rest])
            ELSE IF ~Parseable(line)
                 THEN [r EXCEPT !.buffer = rest, !.lines = Append(@, line), !.thrown = TRUE]
            ELSE DrainLines([r EXCEPT !.buffer = rest,
                                      !.lines = Append(@, line),
                                      !.agg = OnItem(@, JSONParse(line))])

\* one pass of the outer loop for a chunk that was read, server.js 32-39
OnChunk(r, pend, value) ==
    LET d == Decode(pend, value) IN
    [DrainLines([r EXCEPT !.buffer = @ \o d.chars]) EXCEPT !.pending = d.pending]

\* an end of stream that drops what is left in the buffer
OnDoneNoTrailing(r, pend) ==
    [r EXCEPT !.buffer = @ \o DecodeFlush(pend), !.pending = FALSE]

\* after the loop, server.js 42-44
OnDone(r, pend) ==
    LET trailing == Trim(r.buffer \o DecodeFlush(pend)) IN
    IF trailing = <<>> THEN [r EXCEPT !.buffer = @ \o DecodeFlush(pend), !.pending = FALSE]
    ELSE IF ~Parseable(trailing)
         THEN [r EXCEPT !.buffer = @ \o DecodeFlush(pend), !.pending = FALSE,
                        !.lines = Append(@, trailing), !.thrown = TRUE]
    ELSE [r EXCEPT !.buffer = @ \o DecodeFlush(pend), !.pending = FALSE,
                   !.lines = Append(@, trailing),
                   !.agg = OnItem(@, JSONParse(trailing))]

SyntaxError == [name |-> "SyntaxError", message |-> "Unexpected token in JSON"]
AbortError == [name |-> "AbortError", message |-> "This operation was aborted"]
FetchFailed == [name |-> "TypeError", message |-> "fetch failed"]
Terminated == [name |-> "TypeError", message |-> "terminated"]
EmptyBody == [name |-> "Error", message |-> "Reponse NDJSON vide."]

\* ----------------------------------------------------------------- state
VARIABLES
    req,                 \* req.body: [tournamentId, type]
    pc,                  \* where the handler is
    timer,               \* the setTimeout of fetchWithTimeout: "off" or "armed"
    calls,               \* history: the outbound calls made, in order
    pending,             \* the TextDecoder's held lead byte
    buffer,
    gameCount, unanalyzedCount, lichessCount, fullyAnalyzedCount, shortCount,
    ps,
    res,                 \* the response sent (status 0: none yet)
    kind,                \* history: the failure kind of the response, "" if none
    received,            \* history: the bytes read from the body so far
    lines,               \* history: the texts given to JSON.parse so far
    reads,               \* history: number of chunks read
    eof,                 \* history: reader.read() has returned done
    rq,                  \* under SpecTwo: the two requests in progress
    store                \* under SpecTwo: the bindings of lines 67-73, by scope

vars == <<req, pc, timer, calls, pending, buffer, gameCount, unanalyzedCount,
          lichessCount, fullyAnalyzedCount, shortCount, ps, res, kind,
          received, lines, reads, eof, rq, store>>

\* the variables of the single call of Spec, SpecNd and SpecAgg
vars_one == <<req, pc, timer, calls, pending, buffer, gameCount, unanalyzedCount,
              lichessCount, fullyAnalyzedCount, shortCount, ps, res, kind,
              received, lines, reads, eof>>

Agg ==
    [gameCount |-> gameCount, unanalyzedCount |-> unanalyzedCount,
     lichessCount |-> lichessCount, fullyAnalyzedCount |-> fullyAnalyzedCount,
     shortCount |-> shortCount, ps |-> ps]

Reader == [buffer |-> buffer, agg |-> Agg, lines |-> lines, thrown |-> FALSE, pending |-> pending]

\* tournamentId is a string of characters, "a" an alphanumeric one and "-"
\* any other; <<>> is the missing or empty identifier
IdValues == {<<>>, <<"a">>, <<"-">>, <<"a", "-">>, <<"-", "a">>}
TypeValues == {"", "swiss", "arena", "blitz"}
Requests == [tournamentId : IdValues, type : TypeValues]

\* the pattern without its end anchor, /^[a-zA-Z0-9]+/
TestAlnumPrefix(id) == Len(id) >= 1 /\ id[1] = "a"

\* /^[a-zA-Z0-9]+$/.test(id)
TestAlnum(id) == Len(id) >= 1 /\ \A i \in 1..Len(id) : id[i] = "a"

\* the two calls of the handler that SpecTwo runs side by side
Callers == {1, 2}

\* bindings declared once for the module and shared by every call
ScopeModule(i) == 1

\* the scope of the bindings of lines 67-73: they are declared with let and
\* const inside the handler, so each call i has its own
Scope(i) == i

\* a call of the handler that has not started: its position, the decoder's
\* held byte, the buffer, its response, and as history the bytes it has
\* read, the number of chunks, the end of its stream and whether it has
\* run lines 67-73
Idle ==
    [pc |-> "start", pending |-> FALSE, buffer |-> <<>>, res |-> NoResponse,
     received |-> <<>>, reads |-> 0, eof |-> FALSE, opened |-> FALSE]

Init ==
    /\ req \in Requests
    /\ pc = "start"
    /\ timer = "off"
    /\ calls = <<>>
    /\ pending = FALSE
    /\ buffer = <<>>
    /\ gameCount = 0
    /\ unanalyzedCount = 0
    /\ lichessCount = 0
    /\ fullyAnalyzedCount = 0
    /\ shortCount = 0
    /\ ps = <<>>
    /\ res = NoResponse
    /\ kind = ""
    /\ received = <<>>
    /\ lines = <<>>
    /\ reads = 0
    /\ eof = FALSE
    /\ rq = [i \in Callers |-> Idle]
    /\ store = [i \in Callers |-> EmptyAgg]

streamVars == <<pending, buffer, gameCount, unanalyzedCount, lichessCount,
                fullyAnalyzedCount, shortCount, ps, received, lines, reads, eof>>

Respond(r, k) ==
    /\ res' = r
    /\ kind' = k
    /\ pc' = "done"

\* ---------------------------------------------------------------- actions
\* server.js 50-58: the three checks, then the first fetchWithTimeout, which
\* arms the timer (line 13) and starts the fetch (line 15)
Validate ==
    /\ pc = "start"
    /\ IF req.tournamentId = <<>> \/ req.type = ""
       THEN /\ Respond(Failure(400, "tournamentId et type requis"), "ValidationError")
            /\ UNCHANGED <<timer, calls>>
       ELSE IF ~TestAlnum(req.tournamentId)
       THEN /\ Respond(Failure(400, "tournamentId invalide"), "ValidationError")
            /\ UNCHANGED <<timer, calls>>
       ELSE IF req.type # "swiss" /\ req.type # "arena"
       THEN /\ Respond(Failure(400, "type invalide"), "ValidationError")
            /\ UNCHANGED <<timer, calls>>
       ELSE /\ pc' = "metaFetch"
            /\ timer' = "armed"
            /\ calls' = Append(calls, <<IF req.type = "swiss" THEN "swiss" ELSE "tournament", "info">>)
            /\ UNCHANGED <<res, kind>>
    /\ UNCHANGED <<req, rq, store, streamVars>>

\* the metadata fetch resolves: clearTimeout (line 17), then line 59
MetaResponds ==
    /\ pc = "metaFetch"
    /\ timer' = "off"
    /\ \E ok \in BOOLEAN :
         IF ok THEN pc' = "metaJson" /\ UNCHANGED <<res, kind>>
         ELSE Respond(Failure(404, "Tournoi introuvable."), "NotFoundError")
    /\ UNCHANGED <<req, rq, store, calls, streamVars>>

\* the timer fires while a fetch is pending: controller.abort() (line 13)
\* rejects the fetch with an AbortError, which the handler catches
FetchTimesOut ==
    /\ pc \in {"metaFetch", "gamesFetch"}
    /\ timer = "armed"
    /\ timer' = "off"
    /\ Respond(Catch(AbortError), "TimeoutError")
    /\ UNCHANGED <<req, rq, store, calls, streamVars>>

\* a fetch rejects for a transport reason
FetchRejects ==
    /\ pc \in {"metaFetch", "gamesFetch"}
    /\ timer' = "off"
    /\ Respond(Catch(FetchFailed), "UpstreamError")
    /\ UNCHANGED <<req, rq, store, calls, streamVars>>

\* await tRes.json() settles (line 60); on success the second
\* fetchWithTimeout starts (line 63)
MetaJson ==
    /\ pc = "metaJson"
    /\ \E ok \in BOOLEAN :
         IF ok
         THEN /\ pc' = "gamesFetch"
              /\ timer' = "armed"
              /\ calls' = Append(calls, <<IF req.type = "swiss" THEN "swiss" ELSE "tournament", "games">>)
              /\ UNCHANGED <<res, kind>>
         ELSE /\ Respond(Catch(SyntaxError), "UpstreamError")
              /\ UNCHANGED <<timer, calls>>
    /\ UNCHANGED <<req, rq, store, streamVars>>

\* the games fetch resolves: clearTimeout, line 64, and forEachNdjson's
\* line 22
GamesResponds ==
    /\ pc = "gamesFetch"
    /\ timer' = "off"
    /\ \E ok \in BOOLEAN, hasBody \in BOOLEAN :
         IF ~ok THEN Respond(Failure(500, "Impossible de recuperer les parties."), "UpstreamError")
         ELSE IF ~hasBody THEN Respond(Catch(EmptyBody), "UpstreamError")
         ELSE pc' = "reading" /\ UNCHANGED <<res, kind>>
    /\ UNCHANGED <<req, rq, store, calls, streamVars>>

\* reader.read() resolves with a chunk: server.js 29-39
ReadChunk(value) ==
    /\ pc = "reading"
    /\ LET r == OnChunk(Reader, pending, value) IN
       /\ received' = received \o value
       /\ reads' = reads + 1
       /\ pending' = r.pending
       /\ buffer' = r.buffer
       /\ lines' = r.lines
       /\ gameCount' = r.agg.gameCount
       /\ unanalyzedCount' = r.agg.unanalyzedCount
       /\ lichessCount' = r.agg.lichessCount
       /\ fullyAnalyzedCount' = r.agg.fullyAnalyzedCount
       /\ shortCount' = r.agg.shortCount
       /\ ps' = r.agg.ps
       /\ IF r.thrown THEN Respond(Catch(SyntaxError), "DecodeError")
          ELSE UNCHANGED <<pc, res, kind>>
    /\ UNCHANGED <<req, rq, store, timer, calls, eof>>

\* the chunks of Spec: a record's line, a blank line, a line that is no
\* record, and a record with no newline after it
LineChunks ==
    {<<OPEN, BODY(g), NL>> : g \in GameRecords}
        \cup {<<SP, NL>>, <<OPEN, NL>>, <<OPEN, BODY(NdGame)>>}

ReadLine ==
    /\ reads < MaxReads
    /\ \E value \in LineChunks : ReadChunk(value)

\* the chunks of SpecNd: any bytes, cut anywhere
ByteChunks(n) == UNION {[1..k -> NdBytes] : k \in 1..n}

ReadBytes ==
    /\ Len(received) < MaxLen
    /\ \E value \in ByteChunks(MaxLen - Len(received)) : ReadChunk(value)

\* the chunks of SpecAgg: one chunk holds the lines of k games of the same
\* players with the same analysis
RECURSIVE Repeat(_, _)
Repeat(chunk, k) == IF k = 0 THEN <<>> ELSE chunk \o Repeat(chunk, k - 1)

RepeatedChunks ==
    {Repeat(<<OPEN, BODY(g), NL>>, k) : g \in PoolGames, k \in 1..MaxRepeat}

ReadRepeated ==
    /\ reads < MaxReads
    /\ \E value \in RepeatedChunks : ReadChunk(value)

\* the chunks of SpecSides: one record's line each
SideChunks == {<<OPEN, BODY(g), NL>> : g \in SideGames}

ReadSideLine ==
    /\ reads < MaxReads
    /\ \E value \in SideChunks : ReadChunk(value)

\* reader.read() resolves with done: server.js 30, 42-44, then 114-146
ReadDone ==
    /\ pc = "reading"
    /\ LET r == OnDone(Reader, pending) IN
       /\ eof' = TRUE
       /\ pending' = r.pending
       /\ buffer' = r.buffer
       /\ lines' = r.lines
       /\ gameCount' = r.agg.gameCount
       /\ unanalyzedCount' = r.agg.unanalyzedCount
       /\ lichessCount' = r.agg.lichessCount
       /\ fullyAnalyzedCount' = r.agg.fullyAnalyzedCount
       /\ shortCount' = r.agg.shortCount
       /\ ps' = r.agg.ps
       /\ IF r.thrown THEN Respond(Catch(SyntaxError), "DecodeError")
          ELSE LET f == Finish(r.agg) IN
               Respond(f, IF f.status = 200 THEN "" ELSE "NoDataError")
    /\ UNCHANGED <<req, rq, store, timer, calls, received, reads>>

\* reader.read() rejects: the transport failed while the body was read
ReadRejects ==
    /\ pc = "reading"
    /\ Respond(Catch(Terminated), "UpstreamError")
    /\ UNCHANGED <<req, rq, store, timer, calls, streamVars>>

\* ------------------------------------------------- two calls side by side
\* Under SpecTwo the handler is called twice with valid requests, and the
\* steps of the two calls interleave at every await: the wait for the
\* metadata fetch, for its body, for the games fetch and for each chunk.
\* the chunks of SpecTwo
TwoGame == Game(Side("c", "", Some(AnalysisB)), Side("a", "", Some(AnalysisA)), Some(9), "mate")
TwoChunks ==
    {<<OPEN, BODY(NdGame), NL>>, <<OPEN, BODY(TwoGame), NL>>,
     <<OPEN, BODY(NdGame)>>, <<OPEN, NL>>}

\* server.js 50-58 for a request that passes the three checks
TwoValidate(i) ==
    /\ rq[i].pc = "start"
    /\ rq' = [rq EXCEPT ![i].pc = "metaFetch"]
    /\ UNCHANGED <<store, vars_one>>

\* server.js 58-59
TwoMetaResponds(i) ==
    /\ rq[i].pc = "metaFetch"
    /\ \E ok \in BOOLEAN :
         rq' = [rq EXCEPT ![i] =
                  IF ok THEN [@ EXCEPT !.pc = "metaJson"]
                  ELSE [@ EXCEPT !.pc = "done", !.res = Failure(404, "Tournoi introuvable.")]]
    /\ UNCHANGED <<store, vars_one>>

\* a fetch is aborted by its timer or rejects: server.js 147-151
TwoFetchFails(i) ==
    /\ rq[i].pc \in {"metaFetch", "gamesFetch"}
    /\ \E e \in {AbortError, FetchFailed} :
         rq' = [rq EXCEPT ![i] = [@ EXCEPT !.pc = "done", !.res = Catch(e)]]
    /\ UNCHANGED <<store, vars_one>>

\* server.js 60, 63
TwoMetaJson(i) ==
    /\ rq[i].pc = "metaJson"
    /\ \E ok \in BOOLEAN :
         rq' = [rq EXCEPT ![i] =
                  IF ok THEN [@ EXCEPT !.pc = "gamesFetch"]
                  ELSE [@ EXCEPT !.pc = "done", !.res = Catch(SyntaxError)]]
    /\ UNCHANGED <<store, vars_one>>

\* server.js 63-75: the games fetch resolves; lines 67-73 set the counters
\* to 0 and the map to a new Map in the scope of the call, then
\* forEachNdjson starts (line 22) and waits for the first chunk
TwoGamesResponds(i) ==
    /\ rq[i].pc = "gamesFetch"
    /\ \E ok \in BOOLEAN, hasBody \in BOOLEAN :
         IF ~ok
         THEN /\ rq' = [rq EXCEPT ![i] =
                    [@ EXCEPT !.pc = "done",
                              !.res = Failure(500, "Impossible de recuperer les parties.")]]
              /\ UNCHANGED store
         ELSE /\ store' = [store EXCEPT ![Scope(i)] = EmptyAgg]
              /\ rq' = [rq EXCEPT ![i] =
                    IF hasBody THEN [@ EXCEPT !.pc = "reading", !.opened = TRUE]
                    ELSE [@ EXCEPT !.pc = "done", !.opened = TRUE, !.res = Catch(EmptyBody)]]
    /\ UNCHANGED vars_one

\* what forEachNdjson of call i works on
TwoReader(i) ==
    [buffer |-> rq[i].buffer, agg |-> store[Scope(i)], lines |-> <<>>,
     thrown |-> FALSE, pending |-> rq[i].pending]

\* server.js 29-39 in call i
TwoReadChunk(i) ==
    /\ rq[i].pc = "reading"
    /\ rq[i].reads < MaxReads
    /\ \E value \in TwoChunks :
         LET r == OnChunk(TwoReader(i), rq[i].pending, value) IN
         /\ store' = [store EXCEPT ![Scope(i)] = r.agg]
         /\ rq' = [rq EXCEPT ![i] =
               [@ EXCEPT !.received = @ \o value, !.reads = @ + 1,
                         !.pending = r.pending, !.buffer = r.buffer,
                         !.pc = IF r.thrown THEN "done" ELSE @,
                         !.res = IF r.thrown THEN Catch(SyntaxError) ELSE @]]
    /\ UNCHANGED vars_one

\* server.js 30, 42-44, then 114-146 in call i
TwoReadDone(i) ==
    /\ rq[i].pc = "reading"
    /\ LET r == OnDone(TwoReader(i), rq[i].pending) IN
       /\ store' = [store EXCEPT ![Scope(i)] = r.agg]
       /\ rq' = [rq EXCEPT ![i] =
             [@ EXCEPT !.eof = TRUE, !.pending = r.pending, !.buffer = r.buffer,
                       !.pc = "done",
                       !.res = IF r.thrown THEN Catch(SyntaxError) ELSE Finish(r.agg)]]
    /\ UNCHANGED vars_one

\* reader.read() rejects in call i
TwoReadRejects(i) ==
    /\ rq[i].pc = "reading"
    /\ rq' = [rq EXCEPT ![i] = [@ EXCEPT !.pc = "done", !.res = Catch(Terminated)]]
    /\ UNCHANGED <<store, vars_one>>

NextTwo ==
    \/ \E i \in Callers : TwoValidate(i)
    \/ \E i \in Callers : TwoMetaResponds(i)
    \/ \E i \in Callers : TwoFetchFails(i)
    \/ \E i \in Callers : TwoMetaJson(i)
    \/ \E i \in Callers : TwoGamesResponds(i)
    \/ \E i \in Callers : TwoReadChunk(i)
    \/ \E i \in Callers : TwoReadDone(i)
    \/ \E i \in Callers : TwoReadRejects(i)

Common ==
    \/ Validate
    \/ MetaResponds
    \/ FetchTimesOut
    \/ FetchRejects
    \/ MetaJson
    \/ GamesResponds
    \/ ReadDone
    \/ ReadRejects

Next == Common \/ ReadLine
NextNd == Common \/ ReadBytes
NextAgg == Common \/ ReadRepeated
NextSides == Common \/ ReadSideLine

Spec == Init /\ [][Next]_vars
SpecNd == Init /\ [][NextNd]_vars
SpecAgg == Init /\ [][NextAgg]_vars
SpecSides == Init /\ [][NextSides]_vars

\* SpecTwo starts with both calls not yet started; the variables of the
\* single call stay as they are at the start
InitTwo == Init /\ req = [tournamentId |-> <<"a">>, type |-> "swiss"]
SpecTwo == InitTwo /\ [][NextTwo]_vars

\* ======================================================================
\* Properties
\* ======================================================================
\* the text of the bytes read so far, decoded in one piece
TextOf(bytes) ==
    LET d == Decode(FALSE, bytes) IN d.chars \o DecodeFlush(d.pending)

\* text.split("\n")
RECURSIVE SplitNL(_)
SplitNL(text) ==
    LET i == IndexOfNL(text) IN
    IF i = 0 THEN <<text>>
    ELSE <<SubSeq(text, 1, i - 1)>> \o SplitNL(SubSeq(text, i + 1, Len(text)))

\* the non-blank lines of a text, trimmed
NonBlankLines(text) ==
    LET all == SplitNL(text)
        trimmed == [i \in 1..Len(all) |-> Trim(all[i])]
    IN SelectSeq(trimmed, LAMBDA l : l # <<>>)

\* the games given to the callback so far, in order
DecodedGames == [i \in 1..gameCount |-> JSONParse(lines[i])]

RECURSIVE SumGamesPlayed(_)
SumGamesPlayed(m) == IF m = <<>> THEN 0 ELSE Head(m).gamesPlayed + SumGamesPlayed(Tail(m))

ClassSum == shortCount + unanalyzedCount + fullyAnalyzedCount

\* what forEachNdjson does with the same bytes arriving as one chunk (and,
\* when ended, the end of the stream after it)
OneChunk(bytes, ended) ==
    LET r0 == [buffer |-> <<>>, agg |-> EmptyAgg, lines |-> <<>>, thrown |-> FALSE,
               pending |-> FALSE]
        r1 == OnChunk(r0, FALSE, bytes)
    IN IF r1.thrown \/ ~ended THEN r1 ELSE OnDone(r1, r1.pending)

\* C1: however the bytes read so far were cut into chunks, the texts taken
\* from them and given to JSON.parse, and the state the callback has built,
\* are those of the same bytes read as one single chunk.
C1_ChunkIndependence ==
    LET one == OneChunk(received, eof) IN
    /\ lines = one.lines
    /\ Agg = one.agg

\* a record cut between its "{" and its rest, with no newline after it
C1_Witness ==
    /\ eof
    /\ reads = 2
    /\ received = <<OPEN, BODY(NdGame)>>
    /\ gameCount = 1
    /\ res.status = 200

\* C2: the gamesPlayed of all entries of ps add up to 2 x gameCount.
C2_GamesPlayedSum == SumGamesPlayed(ps) = 2 * gameCount

\* two games whose four sides are one and the same player
C2_Witness ==
    /\ gameCount = 2
    /\ Len(ps) = 1
    /\ ps[1].gamesPlayed = 4

\* C3: every entry of ps has analyzedGames <= gamesPlayed.
C3_AnalyzedAtMostPlayed ==
    \A i \in 1..Len(ps) : ps[i].analyzedGames <= ps[i].gamesPlayed

\* one player analysed in each of two games, another in none of them
C3_Witness ==
    /\ gameCount = 2
    /\ \E i \in 1..Len(ps) : ps[i].analyzedGames = 2 /\ ps[i].gamesPlayed = 2
    /\ \E i \in 1..Len(ps) : ps[i].analyzedGames = 0 /\ ps[i].gamesPlayed = 2

\* C4: a success response is sent only at the end of the stream, when every
\* non-blank line of the text read is a record and was given to the
\* callback; a response sent before the end of the stream, or with a line
\* that is no record, is a failure and carries no payload.
C4_AllOrNothing ==
    LET L == NonBlankLines(TextOf(received)) IN
    /\ res.status = 200 =>
         /\ eof
         /\ \A i \in 1..Len(L) : Parseable(L[i])
         /\ lines = L
         /\ gameCount = Len(L)
         /\ res.payload # None /\ res.payload[1].gameCount = Len(L)
    /\ (pc = "done" /\ (~eof \/ \E i \in 1..Len(L) : ~Parseable(L[i]))) =>
         /\ res.status \in {400, 404, 500, 504}
         /\ res.payload = None

\* a record was aggregated, then a line that is no record ended the request
C4_Witness ==
    /\ pc = "done"
    /\ gameCount >= 1
    /\ kind = "DecodeError"
    /\ res.status = 500
    /\ res.payload = None

WaitingForUpstream == pc \in {"metaFetch", "metaJson", "gamesFetch", "reading"}

\* C5: whenever the request waits for the upstream, the timeout is armed, so
\* that a silent upstream ends the wait with the 504 response.
C5_WaitsAreBounded == WaitingForUpstream => timer = "armed"

\* Invalid input answers 400 (line 51), a missing tournament 404 (line 59),
\* a failed feed 500 (line 64) and a timeout 504 (line 149).
KindOfStatus(st) ==
    CASE st = 400 -> "ValidationError"
      [] st = 404 -> "NotFoundError"
      [] st = 500 -> "UpstreamError"
      [] st = 504 -> "TimeoutError"
      [] OTHER -> "none"

C7_NoData ==
    /\ (pc = "done" /\ eof /\ NonBlankLines(TextOf(received)) = <<>>) =>
         res.status = 404 /\ res.payload = None
    /\ (pc = "done" /\ eof /\ kind # "DecodeError" /\ gameCount > 0
          /\ \A i \in 1..Len(ps) : ps[i].analyzedGames = 0) =>
         res.status = 400 /\ res.payload = None
    /\ res.status = 200 =>
         /\ gameCount > 0
         /\ \E i \in 1..Len(ps) : ps[i].analyzedGames > 0
         /\ res.payload[1].eligiblePlayers > 0

\* two games, none of them analysed
C7_Witness ==
    /\ pc = "done"
    /\ eof
    /\ gameCount = 2
    /\ \A i \in 1..Len(ps) : ps[i].analyzedGames = 0
    /\ res.status = 400

\* the requests section 6 of the specification accepts
ValidRequest ==
    /\ req.tournamentId # <<>>
    /\ \A i \in 1..Len(req.tournamentId) : req.tournamentId[i] = "a"
    /\ req.type \in {"swiss", "arena"}

\* C8: a request that is not valid makes no outbound call and, once
\* answered, is answered 400.
C8_RejectedBeforeAnyCall ==
    ~ValidRequest =>
        /\ calls = <<>>
        /\ pc \in {"start", "done"}
        /\ pc = "done" => res.status = 400 /\ kind = "ValidationError"

\* an identifier with a character outside the pattern was rejected
C8_Witness ==
    /\ req.tournamentId = <<"a", "-">>
    /\ req.type = "swiss"
    /\ pc = "done"
    /\ res.status = 400

\* C9: shortCount + unanalyzedCount + fullyAnalyzedCount <= gameCount.
C9_ClassSumAtMostGameCount == ClassSum <= gameCount

\* a short game and a fully analysed one, the latter short as well
C9_Witness ==
    /\ gameCount = 2
    /\ shortCount = 1
    /\ fullyAnalyzedCount = 1
    /\ \E i \in 1..2 :
         /\ HasAnalysis(DecodedGames[i].white) /\ HasAnalysis(DecodedGames[i].black)
         /\ DecodedGames[i].status = "aborted"

\* the classes of section 8 of the specification
Tokens10(g) == IF g.moves = None THEN 0 ELSE g.moves[1]
ShortOrAborted(g) == Tokens10(g) < 10 \/ g.status \in {"aborted", "noStart"}
BothAnalyzed(g) == g.white.analysis # None /\ g.black.analysis # None
MissingSides(g) ==
    (IF g.white.analysis = None THEN 1 ELSE 0) + (IF g.black.analysis = None THEN 1 ELSE 0)
StreamEnded == pc = "done" /\ eof /\ kind # "DecodeError"

\* C10 as claimed: at the end of a stream the three counts add up to
\* gameCount only when every game is short or aborted, or fully analysed, or
\* not short with exactly one side lacking its analysis.
C10_EqualOnlyIfExactlyOneMissing ==
    (StreamEnded /\ ClassSum = gameCount) =>
        \A i \in 1..gameCount :
            LET g == DecodedGames[i] IN
            \/ ShortOrAborted(g)
            \/ BothAnalyzed(g)
            \/ (~ShortOrAborted(g) /\ MissingSides(g) = 1)

\* C10, amended: at the end of a stream every game is short or aborted, or
\* fully analysed, or not short with at least one side lacking its analysis,
\* and the three counts add up to gameCount.
C10_EqualAtEnd ==
    StreamEnded =>
        /\ \A i \in 1..gameCount :
              LET g == DecodedGames[i] IN
              \/ ShortOrAborted(g)
              \/ BothAnalyzed(g)
              \/ (~ShortOrAborted(g) /\ MissingSides(g) >= 1)
        /\ ClassSum = gameCount

\* a stream with a game that is not short and has neither side analysed
C10_Witness ==
    /\ StreamEnded
    /\ gameCount = 2
    /\ ClassSum = gameCount
    /\ \E i \in 1..gameCount :
          ~ShortOrAborted(DecodedGames[i]) /\ MissingSides(DecodedGames[i]) = 2

\* the players of the map, by position
Players == 1..Len(ps)
EligibleSet ==
    {i \in Players : ps[i].analyzedGames >= 4 /\ 2 * ps[i].analyzedGames >= ps[i].gamesPlayed}
AnalysedSet == {i \in Players : ps[i].analyzedGames > 0}
ChosenSet == IF Cardinality(EligibleSet) >= 2 THEN EligibleSet ELSE AnalysedSet
NamesOf(arr) == {arr[i].username : i \in 1..Len(arr)}
ThreeOfThree(i) == ps[i].gamesPlayed = 3 /\ ps[i].analyzedGames = 3

\* C11: the ranking pool holds the players with at least 4 analysed games
\* that are at least half of their games when there are 2 or more of them,
\* and otherwise every player with an analysed game; a player with 3 games,
\* all analysed, is never eligible and is in the pool whenever fewer than 2
\* players are eligible; the answer reports the size of that pool.
C11_PoolRule ==
    LET metrics == Metrics(ps)
        pool == Pool(metrics)
    IN /\ NamesOf(pool) = {ps[i].username : i \in ChosenSet}
       /\ Len(pool) = Cardinality(ChosenSet)
       /\ \A i \in Players :
            ThreeOfThree(i) =>
               /\ ps[i].username \notin NamesOf(Eligible(metrics))
               /\ Cardinality(EligibleSet) < 2 => ps[i].username \in NamesOf(pool)
       /\ res.status = 200 => res.payload[1].eligiblePlayers = Cardinality(ChosenSet)

\* one eligible player only, and two players with 3 games out of 3 analysed
\* ranked with them
C11_Witness ==
    /\ res.status = 200
    /\ Cardinality(EligibleSet) = 1
    /\ \E i \in Players : ThreeOfThree(i)
    /\ res.payload[1].eligiblePlayers = 3

\* two eligible players keep an analysed player with 3 games out of the pool
C11_WitnessTwoEligible ==
    /\ res.status = 200
    /\ Cardinality(EligibleSet) = 2
    /\ \E i \in Players : ThreeOfThree(i)
    /\ res.payload[1].eligiblePlayers = 2

\* a player with 4 analysed games that are less than half of their games
C11_WitnessRatio ==
    /\ res.status = 200
    /\ \E i \in Players : ps[i].analyzedGames >= 4 /\ i \notin EligibleSet

Counters == {"inaccuracies", "mistakes", "blunders"}
\* the "most k" and "least k" entries of an answer
MostOf(body, k) ==
    CASE k = "inaccuracies" -> body.mostInaccuracies
      [] k = "mistakes" -> body.mostMistakes
      [] k = "blunders" -> body.mostBlunders
LeastOf(body, k) ==
    CASE k = "inaccuracies" -> body.leastInaccuracies
      [] k = "mistakes" -> body.leastMistakes
      [] k = "blunders" -> body.leastBlunders

\* C12: in every answer, for each of inaccuracies, mistakes and blunders,
\* the player named "most" is a member of the pool whose count is the
\* greatest of the pool, the player named "least" is a member of the pool
\* whose count is the smallest of the pool and whose accuracy is the highest
\* among the members with that smallest count, and the value reported is
\* that player's count.
C12_MostAndLeast ==
    res.status = 200 =>
        LET body == res.payload[1]
            pm == body.playerMetrics
        IN \A k \in Counters :
              /\ \E i \in ChosenSet :
                    /\ MostOf(body, k) = [player |-> pm[i].username, value |-> ps[i][k]]
                    /\ \A j \in ChosenSet : ps[j][k] <= ps[i][k]
              /\ \E i \in ChosenSet :
                    /\ LeastOf(body, k) = [player |-> pm[i].username, value |-> ps[i][k]]
                    /\ \A j \in ChosenSet : ps[j][k] >= ps[i][k]
                    /\ \A j \in ChosenSet :
                          ps[j][k] = ps[i][k] => pm[j].accuracy <= pm[i].accuracy

\* two pool members level on the smallest number of inaccuracies: the one
\* named is the more accurate, which the map holds after the other
C12_Witness ==
    /\ res.status = 200
    /\ LET body == res.payload[1]
           pm == body.playerMetrics
       IN \E i, j \in ChosenSet :
             /\ i < j
             /\ ps[i].inaccuracies = ps[j].inaccuracies
             /\ \A l \in ChosenSet : ps[l].inaccuracies >= ps[i].inaccuracies
             /\ pm[i].accuracy < pm[j].accuracy
             /\ body.leastInaccuracies.player = pm[j].username
             /\ body.mostInaccuracies.player = pm[i].username

\* the eight superlatives of the answer given
Answered ==
    LET body == res.payload[1]
    IN Some(<<body.mostInaccuracies, body.leastInaccuracies,
              body.mostMistakes, body.leastMistakes,
              body.mostBlunders, body.leastBlunders,
              body.highestAccuracy, body.lowestAccuracy>>)

Alone(i) == OneChunk(rq[i].received, rq[i].eof)

\* C14: with two calls of the handler in progress, under every interleaving
\* of their waits, the counters and the player map of each call are those
\* it builds alone from the bytes of its own stream, and its answer after
\* the stream is the one it gives alone: no game of a call is counted in
\* the other.
C14_CallsDoNotInterfere ==
    \A i \in Callers :
        rq[i].opened =>
            /\ store[Scope(i)] = Alone(i).agg
            /\ (rq[i].eof /\ ~Alone(i).thrown) => rq[i].res = Finish(Alone(i).agg)
            /\ rq[i].res.status = 200 =>
                  rq[i].res.payload[1].gameCount = Alone(i).agg.gameCount

\* both calls are waiting for a chunk, each with games of its own counted,
\* and their maps differ
C14_Witness ==
    /\ rq[1].pc = "reading" /\ rq[2].pc = "reading"
    /\ rq[1].received # rq[2].received
    /\ store[Scope(1)].gameCount = 2
    /\ store[Scope(2)].gameCount = 1
    /\ store[Scope(1)].ps # store[Scope(2)].ps

\* one call has answered with its own count while the other still reads
C14_WitnessAnswered ==
    /\ rq[1].pc = "reading" /\ store[Scope(1)].gameCount = 2
    /\ rq[2].res.status = 200 /\ rq[2].res.payload[1].gameCount = 1

\* how many of the games decoded so far satisfy P
CountGames(P(_)) == Cardinality({i \in 1..gameCount : P(DecodedGames[i])})
SomeAnalyzed(g) == MissingSides(g) <= 1
ShortClass(g) == MissingSides(g) >= 1 /\ ShortOrAborted(g)
UnanalyzedClass(g) == MissingSides(g) >= 1 /\ ~ShortOrAborted(g) /\ g.moves # None

\* C15: the counters are those of the classification rule applied to the
\* games decoded so far: gameCount is their number, lichessCount the number
\* of those with analysis on a side, fullyAnalyzedCount of those with
\* analysis on both, shortCount of those lacking analysis on a side that
\* have fewer than 10 move tokens or status aborted or noStart, and
\* unanalyzedCount of those lacking analysis on a side that are not short or
\* aborted and carry a move list.
C15_CountersFollowRule ==
    /\ gameCount = Cardinality({i \in 1..Len(lines) : Parseable(lines[i])})
    /\ lichessCount = CountGames(SomeAnalyzed)
    /\ fullyAnalyzedCount = CountGames(BothAnalyzed)
    /\ shortCount = CountGames(ShortClass)
    /\ unanalyzedCount = CountGames(UnanalyzedClass)

\* a game of 9 moves analysed on both sides, counted neither short nor
\* unanalysed, and an aborted game of 10 moves analysed on one side, counted
\* short and not unanalysed
C15_Witness ==
    /\ gameCount = 2
    /\ shortCount = 1 /\ unanalyzedCount = 0
    /\ lichessCount = 2 /\ fullyAnalyzedCount = 1
    /\ \E i, j \in 1..2 :
         /\ BothAnalyzed(DecodedGames[i]) /\ Tokens10(DecodedGames[i]) = 9
         /\ MissingSides(DecodedGames[j]) = 1
         /\ Tokens10(DecodedGames[j]) = 10 /\ DecodedGames[j].status = "aborted"

\* C16: the texts given to the callback are, in the order of the stream and
\* each once, the non-blank lines of the text read: at every moment the
\* first ones of them, while the stream is read all of them but at most the
\* last, still unterminated, and at the end of a stream whose lines are all
\* records all of them, the one with no newline after it included; blank
\* lines are not among them, and gameCount is then their number.
C16_EveryLineOnce ==
    LET L == NonBlankLines(TextOf(received)) IN
    /\ Len(lines) <= Len(L)
    /\ lines = SubSeq(L, 1, Len(lines))
    /\ pc = "reading" => Len(lines) >= Len(L) - 1
    /\ (eof /\ \A i \in 1..Len(L) : Parseable(L[i])) =>
          /\ lines = L
          /\ gameCount = Len(L)
          /\ DecodedGames = [i \in 1..Len(L) |-> JSONParse(L[i])]

\* a blank line, then a record with no newline after it, and the end
C16_Witness ==
    /\ eof
    /\ received = <<SP, NL, OPEN, BODY(NdGame)>>
    /\ lines = <<<<OPEN, BODY(NdGame)>>>>
    /\ gameCount = 1

\* the text decoded from the bytes read so far, nothing flushed
TextSoFar == Decode(FALSE, received).chars

\* C18: whenever forEachNdjson waits for the next chunk, its buffer holds no
\* newline: it is the unterminated end of the text received so far, every
\* line before it having been taken out.
C18_NoNewlineWhileWaiting ==
    pc = "reading" =>
        /\ \A i \in 1..Len(buffer) : buffer[i] # NL
        /\ buffer = SplitNL(TextSoFar)[Len(SplitNL(TextSoFar))]

\* a record was given to the callback and the start of the next one is kept
C18_Witness ==
    /\ pc = "reading"
    /\ received = <<OPEN, BODY(NdGame), NL, OPEN>>
    /\ buffer = <<OPEN>>
    /\ gameCount = 1

\* the sides of the games decoded so far, in the order the loop of line 95
\* meets them: white then black of each game
SideOccurrences ==
    [j \in 1..(2 * gameCount) |->
        LET g == DecodedGames[(j + 1) \div 2]
        IN IF j % 2 = 1 THEN g.white ELSE g.black]
OccurrencesOf(name) ==
    {j \in 1..(2 * gameCount) : NameOf(SideOccurrences[j]) = name}
\* the team of the first occurrence of the player that carries one
FirstTeam(name) ==
    LET withTeam == {j \in OccurrencesOf(name) : SideOccurrences[j].team # ""}
    IN IF withTeam = {} THEN ""
       ELSE SideOccurrences[CHOOSE j \in withTeam : \A l \in withTeam : j <= l].team

\* C17: a player's team is the team of the first side-occurrence of the
\* player that carries a team: it is unset as long as none has been met,
\* and no later game changes it, whatever teams later occurrences carry.
C17_FirstTeamSticks ==
    \A i \in Players : ps[i].team = FirstTeam(ps[i].username)

\* a player met first with no team, then with t1, then with t2: the team
\* is t1
C17_Witness ==
    /\ gameCount = 2
    /\ \E i \in Players :
         /\ ps[i].team = "t1"
         /\ \E j, k, l \in OccurrencesOf(ps[i].username) :
               /\ j < k /\ k < l
               /\ SideOccurrences[j].team = ""
               /\ SideOccurrences[k].team = "t1"
               /\ SideOccurrences[l].team = "t2"

\* what a field of an analysis adds to a sum: its value when it is a
\* number or a string that writes one, nothing when it is missing or a
\* string that writes none
Contribution(v) ==
    CASE v = Undef -> 0
      [] v = Str -> 0
      [] OTHER -> v[2]
\* the occurrences of a player that carry an analysis
AnalysedOccurrences(name) ==
    {j \in OccurrencesOf(name) : SideOccurrences[j].analysis # None}
RECURSIVE SumOfField(_, _)
SumOfField(S, f) ==
    IF S = {} THEN 0
    ELSE LET j == CHOOSE x \in S : TRUE
         IN Contribution(SideOccurrences[j].analysis[1][f]) + SumOfField(S \ {j}, f)

\* C19: each sum of a player is the sum, over the player's side-occurrences
\* that carry an analysis, of the values of the field, a missing field and
\* a field that is no number counting for 0; it is therefore a number,
\* and analyzedGames counts every such occurrence, whatever its fields.
C19_SumsAreNumbers ==
    \A i \in Players :
        LET S == AnalysedOccurrences(ps[i].username) IN
        /\ ps[i].inaccuracies = SumOfField(S, "inaccuracy")
        /\ ps[i].mistakes = SumOfField(S, "mistake")
        /\ ps[i].blunders = SumOfField(S, "blunder")
        /\ ps[i].inaccuracies \in Nat /\ ps[i].mistakes \in Nat /\ ps[i].blunders \in Nat
        /\ ps[i].analyzedGames = Cardinality(S)

\* a side with a missing count and a side with a count that is no number
\* have both been counted as analysed and have added only their mistakes
C19_Witness ==
    /\ gameCount = 2
    /\ \E i \in Players :
         /\ ps[i].analyzedGames = 2
         /\ ps[i].inaccuracies = 0 /\ ps[i].blunders = 0 /\ ps[i].mistakes = 2
         /\ \E j, k \in AnalysedOccurrences(ps[i].username) :
               /\ SideOccurrences[j].analysis[1].inaccuracy = Undef
               /\ SideOccurrences[k].analysis[1].inaccuracy = Str

\* a side with a count written as a string has added the number it writes
C19_WitnessNumericString ==
    /\ gameCount = 1
    /\ \E i \in Players :
         /\ ps[i].inaccuracies = 4
         /\ SideOccurrences[1].analysis # None
         /\ SideOccurrences[1].analysis[1].inaccuracy = NumStr(4)

\* C20: every decoded game raises exactly one of shortCount, unanalyzedCount
\* and fullyAnalyzedCount, by one, and leaves the two others as they are; a
\* game without a move list is short; so the three counts always add up to
\* gameCount.
C20_ExactlyOneClass ==
    /\ [](ClassSum = gameCount)
    /\ [][gameCount' # gameCount =>
            /\ gameCount' = gameCount + 1
            /\ <<shortCount', unanalyzedCount', fullyAnalyzedCount'>> \in
                  {<<shortCount + 1, unanalyzedCount, fullyAnalyzedCount>>,
                   <<shortCount, unanalyzedCount + 1, fullyAnalyzedCount>>,
                   <<shortCount, unanalyzedCount, fullyAnalyzedCount + 1>>}]_vars

\* a game that ended in a mate, with no move list and no analysis, counted
\* short
C20_Witness ==
    /\ gameCount = 1
    /\ DecodedGames[1].moves = None
    /\ DecodedGames[1].status = "mate"
    /\ MissingSides(DecodedGames[1]) = 2
    /\ shortCount = 1
    /\ unanalyzedCount = 0 /\ fullyAnalyzedCount = 0

====
